---- MODULE Spec2Model ----
(***************************************************************************)
(* Verification model of creator-score-miniapp:                            *)
(*   - useScoreRefresh   (src/hooks/useScoreRefresh.ts)                    *)
(*   - score client      (src/hooks/useBadges.ts, lines 38-253)            *)
(*   - share image GET   (src/app/api/share-image/[talentUUID]/route.tsx)  *)
(* Each component has its own specification over its own variables; the    *)
(* variables of the other components stay at their initial values.         *)
(***************************************************************************)
EXTENDS Integers, Sequences, FiniteSets, TLC

VARIABLES
    \* ---- useScoreRefresh ----
    talentUUID,           \* hook argument; "" when absent
    hasOnSuccess,         \* whether the optional onSuccess argument was given
    isRefreshing,         \* React state (latest value handed to the setter)
    successMessage,       \* React state
    error,                \* React state
    closureIsRefreshing,  \* isRefreshing as captured by the refreshScore closure of the last render
    hasCalledSuccessRef,  \* hasCalledSuccessRef.current
    inFlight,             \* triggerScoreCalculation requests awaiting settlement
    timers,               \* setTimeout callbacks scheduled and not yet run
    invocations,          \* refreshScore invocations so far
    callbackRuns,         \* onSuccess invocations so far
    \* ---- score client (getHighestScore, getCreatorScoreForTalentId) ----
    addresses,            \* argument of getHighestScore
    scorerSlug,           \* scorer slug the fan-out queries with
    inputs,               \* index -> what the fetch of addresses[index] produced
    scores,               \* index -> record getScoreForAddress returned (settled fetches only)
    completionOrder,      \* indices in the order their fetches settled
    highest,              \* <<>> until getHighestScore returns, then <<record>>
    talentInput,          \* <<>> or <<what the talent-id fetch produced>>
    talentScore,          \* <<>> or <<record getCreatorScoreForTalentId returned>>
    scorePc,              \* "idle", "awaiting" (inside Promise.all) or "done"
    \* ---- share image GET ----
    getPc,                \* "idle"; "profile", "fanout", "rate", "fonts" (the await GET is suspended at); "done"
    profile,              \* outcome of talentApiClient.getProfile: "pending", "ok", "notOk", "threw"
    fetches,              \* social / credentials / score -> "pending", "ok", "failed"
    socialAccounts,       \* first element of the Promise.all result
    credentials,          \* second element
    creatorScoreData,     \* third element
    totalFollowers,
    creatorScore,
    rate,                 \* getEthUsdcPrice: "pending", "ok", "failed"
    ethPrice,
    issuerTotals,         \* the Map issuer -> USD total, as a function
    totalEarnings,
    fonts,                \* 1..4 -> "pending", "ok", "failed"
    image,                \* new ImageResponse(...): "none", "built", "threw"
    responses,            \* the responses GET returned, in order
    \* ---- shared ----
    op                    \* the operation that produced the current state

refreshVars == <<talentUUID, hasOnSuccess, isRefreshing, successMessage, error,
                 closureIsRefreshing, hasCalledSuccessRef, inFlight, timers,
                 invocations, callbackRuns>>

scoreVars == <<addresses, scorerSlug, inputs, scores, completionOrder, highest,
               talentInput, talentScore, scorePc>>

shareVars == <<getPc, profile, fetches, socialAccounts, credentials, creatorScoreData,
               totalFollowers, creatorScore, rate, ethPrice, issuerTotals, totalEarnings,
               fonts, image, responses>>

vars == <<refreshVars, scoreVars, shareVars, op>>

\* what each component leaves alone
notRefresh == <<scoreVars, shareVars>>
notScore == <<refreshVars, shareVars>>
notShare == <<refreshVars, scoreVars>>

\* ------------------------------------------------------------------------
\* JavaScript values
\* ------------------------------------------------------------------------
Null == "<null>"
Undefined == "<undefined>"

\* JavaScript truthiness of a string | null | undefined value
Truthy(v) == v \notin {Null, Undefined, ""}

\* ------------------------------------------------------------------------
\* useScoreRefresh
\* ------------------------------------------------------------------------
MaxCalls == 3

EnqueuedMessage == "Calculation enqueued"
FallbackError == "Failed to trigger calculation"

\* values of result.error in a {success: false} response
ResultErrors == {Undefined, "", "Score is in cooldown"}

\* values a rejected triggerScoreCalculation can throw
Thrown == { [isError |-> TRUE, message |-> "Network error"],
            [isError |-> TRUE, message |-> ""],
            [isError |-> FALSE, message |-> "not an Error"] }

Op(name, arg) == [name |-> name, arg |-> arg]

RefreshInit ==
    /\ talentUUID \in {"", "uuid-1"}
    /\ hasOnSuccess \in BOOLEAN
    /\ isRefreshing = FALSE
    /\ successMessage = Null
    /\ error = Null
    /\ closureIsRefreshing = FALSE
    /\ hasCalledSuccessRef = FALSE
    /\ inFlight = 0
    /\ timers = 0
    /\ invocations = 0
    /\ callbackRuns = 0

RefreshIdle ==
    /\ talentUUID = ""
    /\ hasOnSuccess = FALSE
    /\ isRefreshing = FALSE
    /\ successMessage = Null
    /\ error = Null
    /\ closureIsRefreshing = FALSE
    /\ hasCalledSuccessRef = FALSE
    /\ inFlight = 0
    /\ timers = 0
    /\ invocations = 0
    /\ callbackRuns = 0

\* The hook body runs again: the refreshScore handed to the caller now closes
\* over the current value of the isRefreshing state.
useScoreRefresh ==
    /\ closureIsRefreshing # isRefreshing
    /\ closureIsRefreshing' = isRefreshing
    /\ op' = Op("render", Null)
    /\ UNCHANGED notRefresh
    /\ UNCHANGED <<talentUUID, hasOnSuccess, isRefreshing, successMessage, error,
                   hasCalledSuccessRef, inFlight, timers, invocations, callbackRuns>>

clearError ==
    /\ error' = Null
    /\ op' = Op("clearError", Null)
    /\ UNCHANGED notRefresh
    /\ UNCHANGED <<talentUUID, hasOnSuccess, isRefreshing, successMessage,
                   closureIsRefreshing, hasCalledSuccessRef, inFlight, timers,
                   invocations, callbackRuns>>

\* refreshScore up to its await (lines 38-61). The guard reads the isRefreshing of the
\* closure, not the state a setter has since been handed. The analytics capture of
\* lines 41-52 touches no state of the hook and is left out.
refreshScore ==
    /\ invocations < MaxCalls
    /\ invocations' = invocations + 1
    /\ IF talentUUID = "" \/ closureIsRefreshing
       THEN /\ op' = Op("refreshScore", "ignored")
            /\ UNCHANGED <<isRefreshing, successMessage, error,
                           hasCalledSuccessRef, inFlight>>
       ELSE /\ isRefreshing' = TRUE
            /\ error' = Null
            /\ successMessage' = Null
            /\ hasCalledSuccessRef' = FALSE
            /\ inFlight' = inFlight + 1
            /\ op' = Op("refreshScore", "started")
    /\ UNCHANGED notRefresh
    /\ UNCHANGED <<talentUUID, hasOnSuccess, closureIsRefreshing, timers, callbackRuns>>

\* continuation of refreshScore after the await, result.success true (lines 63-77)
refreshScoreSuccess ==
    /\ inFlight > 0
    /\ inFlight' = inFlight - 1
    /\ successMessage' = EnqueuedMessage
    /\ IF hasOnSuccess /\ ~hasCalledSuccessRef
       THEN /\ hasCalledSuccessRef' = TRUE
            /\ timers' = timers + 1
       ELSE UNCHANGED <<hasCalledSuccessRef, timers>>
    /\ op' = Op("resolved", "success")
    /\ UNCHANGED notRefresh
    /\ UNCHANGED <<talentUUID, hasOnSuccess, isRefreshing, error,
                   closureIsRefreshing, invocations, callbackRuns>>

\* continuation of refreshScore after the await, result.success false (lines 78-83)
refreshScoreFailure(resultError) ==
    /\ inFlight > 0
    /\ inFlight' = inFlight - 1
    /\ error' = IF Truthy(resultError) THEN resultError ELSE FallbackError
    /\ isRefreshing' = FALSE
    /\ op' = Op("failed", resultError)
    /\ UNCHANGED notRefresh
    /\ UNCHANGED <<talentUUID, hasOnSuccess, successMessage, closureIsRefreshing,
                   hasCalledSuccessRef, timers, invocations, callbackRuns>>

\* catch block of refreshScore (lines 84-90)
refreshScoreCatch(err) ==
    /\ inFlight > 0
    /\ inFlight' = inFlight - 1
    /\ error' = IF err.isError THEN err.message ELSE FallbackError
    /\ isRefreshing' = FALSE
    /\ op' = Op("rejected", err)
    /\ UNCHANGED notRefresh
    /\ UNCHANGED <<talentUUID, hasOnSuccess, successMessage, closureIsRefreshing,
                   hasCalledSuccessRef, timers, invocations, callbackRuns>>

\* mutant: the delayed callback also dismisses the error
onSuccessTimer_ClearsError(throws) ==
    /\ timers > 0
    /\ timers' = timers - 1
    /\ callbackRuns' = callbackRuns + 1
    /\ error' = Null
    /\ op' = Op("onSuccess", IF throws THEN "threw" ELSE "returned")
    /\ UNCHANGED notRefresh
    /\ UNCHANGED <<talentUUID, hasOnSuccess, isRefreshing, successMessage,
                   closureIsRefreshing, hasCalledSuccessRef, inFlight, invocations>>

\* mutant: the catch of the delayed callback reports the exception as the hook's error
onSuccessTimer_SurfacesError(throws) ==
    /\ timers > 0
    /\ timers' = timers - 1
    /\ callbackRuns' = callbackRuns + 1
    /\ error' = IF throws THEN "Error during score refetch" ELSE error
    /\ op' = Op("onSuccess", IF throws THEN "threw" ELSE "returned")
    /\ UNCHANGED notRefresh
    /\ UNCHANGED <<talentUUID, hasOnSuccess, isRefreshing, successMessage,
                   closureIsRefreshing, hasCalledSuccessRef, inFlight, invocations>>

\* the setTimeout callback (lines 70-76); an exception of onSuccess is caught and logged
onSuccessTimer(throws) ==
    /\ timers > 0
    /\ timers' = timers - 1
    /\ callbackRuns' = callbackRuns + 1
    /\ op' = Op("onSuccess", IF throws THEN "threw" ELSE "returned")
    /\ UNCHANGED notRefresh
    /\ UNCHANGED <<talentUUID, hasOnSuccess, isRefreshing, successMessage, error,
                   closureIsRefreshing, hasCalledSuccessRef, inFlight, invocations>>

RefreshNext ==
    \/ useScoreRefresh
    \/ clearError
    \/ refreshScore
    \/ refreshScoreSuccess
    \/ \E e \in ResultErrors : refreshScoreFailure(e)
    \/ \E err \in Thrown : refreshScoreCatch(err)
    \/ \E t \in BOOLEAN : onSuccessTimer(t)

\* ------------------------------------------------------------------------
\* Score client (src/hooks/useBadges.ts)
\* ------------------------------------------------------------------------
MaxAddresses == 3
MaxPoints == 6

\* LEVEL_RANGES of @/lib/constants: contiguous, non-overlapping inclusive bands
LEVEL_RANGES ==
    << [min |-> 0, max |-> 1, name |-> "Level 1"],
       [min |-> 2, max |-> 3, name |-> "Level 2"],
       [min |-> 4, max |-> 5, name |-> "Level 3"] >>

SCORER_SLUGS == [BUILDER |-> "builder_score", CREATOR |-> "creator_score"]

AddressPool == {"0xAB", "0xcd"}

\* String.prototype.toLowerCase on the addresses of AddressPool
toLowerCase(a) == IF a = "0xAB" THEN "0xab" ELSE a

\* score.points values of a payload that carries a number
PointValues == -1 .. MaxPoints

NoBody == [error |-> Undefined, hasScore |-> FALSE, hasPoints |-> FALSE, points |-> 0,
           last_calculated_at |-> Undefined]

\* JSON bodies the talent-score endpoint answers with: an error body (the empty error
\* string included), a body without score, a score without points, a score with points
Payloads ==
    { [NoBody EXCEPT !.error = e] : e \in {Undefined, "", "Score not found"} }
    \cup
    { [NoBody EXCEPT !.hasScore = TRUE, !.last_calculated_at = "2025-01-01"] }
    \cup
    { [NoBody EXCEPT !.hasScore = TRUE, !.hasPoints = TRUE, !.points = p,
                     !.last_calculated_at = "2025-01-01"] : p \in PointValues }

NoError == [isError |-> FALSE, message |-> ""]

\* what fetch() / response.json() throw: an Error, or a value that is no Error
FetchThrown == { [isError |-> TRUE, message |-> "fetch failed"],
                 [isError |-> FALSE, message |-> "not an Error"] }

\* outcome of one fetch: a parsed body or an exception
FetchOutcomes ==
    { [threw |-> FALSE, data |-> d, err |-> NoError] : d \in Payloads }
    \cup
    { [threw |-> TRUE, data |-> NoBody, err |-> x] : x \in FetchThrown }

\* the record every failure path returns
ErrorScore(message) ==
    [score |-> 0, level |-> 1, levelName |-> "Level 1", lastCalculatedAt |-> Null,
     walletAddress |-> Null, calculating |-> Undefined, error |-> message]

\* data.score?.points ?? 0
PointsOf(data) ==
    IF data.hasScore /\ data.hasPoints THEN data.points ELSE 0

\* mutant: the upper end of a range is taken as exclusive
LevelOf_ExclusiveMax(points) ==
    LET hits == { i \in 1 .. Len(LEVEL_RANGES) :
                    points >= LEVEL_RANGES[i].min /\ points < LEVEL_RANGES[i].max }
    IN IF hits = {} THEN 1
       ELSE CHOOSE i \in hits : \A j \in hits : i <= j

\* LEVEL_RANGES.find(range => points >= range.min && points <= range.max) || LEVEL_RANGES[0],
\* as the 1-based position LEVEL_RANGES.indexOf(levelInfo) + 1
LevelOf(points) ==
    LET hits == { i \in 1 .. Len(LEVEL_RANGES) :
                    points >= LEVEL_RANGES[i].min /\ points <= LEVEL_RANGES[i].max }
    IN IF hits = {} THEN 1
       ELSE CHOOSE i \in hits : \A j \in hits : i <= j

ScoreRecord(data, wallet) ==
    LET points == PointsOf(data)
        level == LevelOf(points)
    IN [score |-> points, level |-> level, levelName |-> LEVEL_RANGES[level].name,
        lastCalculatedAt |-> IF data.hasScore /\ data.last_calculated_at # Undefined
                             THEN data.last_calculated_at ELSE Null,
        walletAddress |-> wallet, calculating |-> FALSE, error |-> Undefined]

CatchMessage(err, fallback) == IF err.isError THEN err.message ELSE fallback

getScoreForAddress(address, outcome) ==
    IF outcome.threw
    THEN ErrorScore(CatchMessage(outcome.err, "Failed to fetch score"))
    ELSE IF Truthy(outcome.data.error)
    THEN ErrorScore(outcome.data.error)
    ELSE ScoreRecord(outcome.data, address)

getCreatorScoreForTalentId(outcome) ==
    IF outcome.threw
    THEN ErrorScore(CatchMessage(outcome.err, "Failed to fetch score"))
    ELSE IF Truthy(outcome.data.error)
    THEN ErrorScore(outcome.data.error)
    ELSE ScoreRecord(outcome.data, Null)

\* mutant: the comparison is >=, so the last of several equal scores wins
RECURSIVE ReduceHighest_LastWins(_, _)
ReduceHighest_LastWins(acc, rest) ==
    IF rest = <<>> THEN acc
    ELSE ReduceHighest_LastWins(IF Head(rest).score >= acc.score THEN Head(rest) ELSE acc,
                                Tail(rest))

\* validScores.reduce((highest, current) => current.score > highest.score ? current : highest)
RECURSIVE ReduceHighest(_, _)
ReduceHighest(acc, rest) ==
    IF rest = <<>> THEN acc
    ELSE ReduceHighest(IF Head(rest).score > acc.score THEN Head(rest) ELSE acc, Tail(rest))

\* lines 138-153: scores is the array Promise.all resolved with, in input order
PickHighest(all) ==
    LET validScores == SelectSeq(all, LAMBDA s : ~Truthy(s.error))
    IN IF Len(validScores) = 0
       THEN ErrorScore("No valid scores found")
       ELSE ReduceHighest(Head(validScores), Tail(validScores))

\* bodies the fan-out of the model draws from: points 0 .. MaxFanPoints, an error body, an exception
MaxFanPoints == 1

FanOutcomes ==
    { o \in FetchOutcomes :
        \/ o.threw /\ o.err.isError
        \/ ~o.threw /\ o.data.error = "Score not found"
        \/ ~o.threw /\ o.data.hasPoints /\ o.data.points \in 0 .. MaxFanPoints }

RECURSIVE SeqsUpTo(_, _)
SeqsUpTo(S, n) ==
    IF n = 0 THEN {<<>>}
    ELSE LET shorter == SeqsUpTo(S, n - 1)
         IN shorter \cup { Append(q, x) : q \in shorter, x \in S }

ScoreIdle ==
    /\ addresses = <<>>
    /\ scorerSlug = SCORER_SLUGS.BUILDER
    /\ inputs = <<>>
    /\ scores = <<>>
    /\ completionOrder = <<>>
    /\ highest = <<>>
    /\ talentInput = <<>>
    /\ talentScore = <<>>
    /\ scorePc = "idle"

ScoreInit ==
    /\ addresses \in SeqsUpTo(AddressPool, MaxAddresses)
    /\ scorerSlug = SCORER_SLUGS.BUILDER
    /\ inputs = <<>>
    /\ scores = <<>>
    /\ completionOrder = <<>>
    /\ highest = <<>>
    /\ talentInput = <<>>
    /\ talentScore = <<>>
    /\ scorePc = "idle"

\* getBuilderScore / getCreatorScore: scorerSlug || default, then getHighestScore up to
\* its await (lines 117-137, 169-184)
getHighestScore(entry, slugArg) ==
    /\ scorePc = "idle"
    /\ scorerSlug' = IF Truthy(slugArg) THEN slugArg
                     ELSE IF entry = "getBuilderScore" THEN SCORER_SLUGS.BUILDER
                     ELSE SCORER_SLUGS.CREATOR
    /\ IF Len(addresses) = 0
       THEN /\ highest' = <<ErrorScore("No wallet addresses provided")>>
            /\ scorePc' = "done"
       ELSE /\ highest' = highest
            /\ scorePc' = "awaiting"
    /\ op' = Op(entry, slugArg)
    /\ UNCHANGED <<addresses, inputs, scores, completionOrder, talentInput, talentScore>>
    /\ UNCHANGED notScore

\* one getScoreForAddress(addr.toLowerCase(), scorerSlug) of the fan-out settles
fetchSettles(i, outcome) ==
    /\ scorePc = "awaiting"
    /\ i \in 1 .. Len(addresses)
    /\ i \notin DOMAIN scores
    /\ inputs' = (i :> outcome) @@ inputs
    /\ scores' = (i :> getScoreForAddress(toLowerCase(addresses[i]), outcome)) @@ scores
    /\ completionOrder' = Append(completionOrder, i)
    /\ op' = Op("fetchSettles", i)
    /\ UNCHANGED <<addresses, scorerSlug, highest, talentInput, talentScore, scorePc>>
    /\ UNCHANGED notScore

\* Promise.all resolved: the rest of getHighestScore (lines 138-153)
getHighestScoreJoin ==
    /\ scorePc = "awaiting"
    /\ DOMAIN scores = 1 .. Len(addresses)
    /\ highest' = <<PickHighest([i \in 1 .. Len(addresses) |-> scores[i]])>>
    /\ scorePc' = "done"
    /\ op' = Op("join", Null)
    /\ UNCHANGED <<addresses, scorerSlug, inputs, scores, completionOrder,
                   talentInput, talentScore>>
    /\ UNCHANGED notScore

\* a single getScoreForAddress call (lines 44-112)
scoreForAddress(address, outcome) ==
    /\ scorePc = "idle"
    /\ addresses = <<address>>
    /\ inputs' = (1 :> outcome)
    /\ scores' = (1 :> getScoreForAddress(address, outcome))
    /\ scorePc' = "done"
    /\ op' = Op("getScoreForAddress", address)
    /\ UNCHANGED <<addresses, scorerSlug, completionOrder, highest, talentInput, talentScore>>
    /\ UNCHANGED notScore

\* a getCreatorScoreForTalentId call (lines 189-253)
creatorScoreForTalentId(outcome) ==
    /\ scorePc = "idle"
    /\ talentInput' = <<outcome>>
    /\ talentScore' = <<getCreatorScoreForTalentId(outcome)>>
    /\ scorePc' = "done"
    /\ op' = Op("getCreatorScoreForTalentId", Null)
    /\ UNCHANGED <<addresses, scorerSlug, inputs, scores, completionOrder, highest>>
    /\ UNCHANGED notScore

ScoreNext ==
    \/ \E entry \in {"getBuilderScore", "getCreatorScore"},
          slugArg \in {Undefined, "custom_score"} : getHighestScore(entry, slugArg)
    \/ \E i \in 1 .. MaxAddresses, o \in FanOutcomes : fetchSettles(i, o)
    \/ getHighestScoreJoin
    \/ \E a \in AddressPool, o \in FetchOutcomes : scoreForAddress(a, o)
    \/ \E o \in FetchOutcomes : creatorScoreForTalentId(o)

\* ------------------------------------------------------------------------
\* Share image route: earnings aggregation (route.tsx lines 101-161)
\* Amounts are fixed-point numbers counted in tenths: 15 stands for 1.5.
\* ------------------------------------------------------------------------
DigitChars == {"0", "1", "2", "3", "4", "5", "6", "7", "8", "9"}

DigitValue(c) ==
    CASE c = "0" -> 0 [] c = "1" -> 1 [] c = "2" -> 2 [] c = "3" -> 3 [] c = "4" -> 4
      [] c = "5" -> 5 [] c = "6" -> 6 [] c = "7" -> 7 [] c = "8" -> 8 [] c = "9" -> 9

\* cleanValue.replace(/[^0-9.KM-]+/g, ""): a string is a sequence of characters
StripNonNumeric(value) ==
    SelectSeq(value, LAMBDA c : c \in DigitChars \cup {".", "K", "M", "-"})

\* String.prototype.includes for a single character
Includes(str, c) == \E i \in 1 .. Len(str) : str[i] = c

\* String.prototype.replace(c, ""): removes the first occurrence only
RemoveFirst(str, c) ==
    IF ~Includes(str, c) THEN str
    ELSE LET i == CHOOSE k \in 1 .. Len(str) :
                      str[k] = c /\ \A j \in 1 .. k - 1 : str[j] # c
         IN SubSeq(str, 1, i - 1) \o SubSeq(str, i + 1, Len(str))

\* length of the longest prefix of str made of digits
RECURSIVE DigitRun(_)
DigitRun(str) ==
    IF str = <<>> \/ Head(str) \notin DigitChars THEN 0 ELSE 1 + DigitRun(Tail(str))

\* value of a digit string
RECURSIVE DigitsValue(_)
DigitsValue(str) ==
    IF str = <<>> THEN 0
    ELSE 10 * DigitsValue(SubSeq(str, 1, Len(str) - 1)) + DigitValue(str[Len(str)])

\* parseFloat on a stripped string: optional "-", digits, optional "." and digits; the
\* longest such prefix is parsed and NaN results when it holds no digit. The value is in
\* tenths, so fraction digits after the first are dropped (the inputs carry at most one).
parseFloat(str) ==
    LET negative == str # <<>> /\ Head(str) = "-"
        body == IF negative THEN Tail(str) ELSE str
        n == DigitRun(body)
        afterInt == SubSeq(body, n + 1, Len(body))
        hasDot == afterInt # <<>> /\ Head(afterInt) = "."
        fraction == IF hasDot THEN Tail(afterInt) ELSE <<>>
        m == DigitRun(fraction)
        magnitude == 10 * DigitsValue(SubSeq(body, 1, n))
                     + (IF m > 0 THEN DigitValue(fraction[1]) ELSE 0)
    IN [nan |-> n + m = 0, tenths |-> IF negative THEN 0 - magnitude ELSE magnitude]

\* lines 126-136: the number a readable_value stands for (NaN * 1000 is NaN)
ParseReadableValue(cleanValue) ==
    LET numericValue == StripNonNumeric(cleanValue)
    IN IF Includes(numericValue, "K")
       THEN LET f == parseFloat(RemoveFirst(numericValue, "K"))
            IN [nan |-> f.nan, tenths |-> f.tenths * 1000]
       ELSE IF Includes(numericValue, "M")
       THEN LET f == parseFloat(RemoveFirst(numericValue, "M"))
            IN [nan |-> f.nan, tenths |-> f.tenths * 1000000]
       ELSE parseFloat(numericValue)

\* isEarningsCredential of @/lib/total-earnings-config: membership in the earnings slugs
isEarningsCredential(slug) == slug \in {"earnings_slug"}

\* convertEthToUsdc of @/lib/utils: the amount times the rate
convertEthToUsdc(value, price) == value * price

\* lines 116-151, one point: what it adds to issuerTotal (0 for every early return)
PointUsdValue(point, price) ==
    IF ~isEarningsCredential(point.slug) THEN 0
    ELSE IF point.readable_value = <<>> \/ point.uom = "" THEN 0
    ELSE LET value == ParseReadableValue(point.readable_value)
         IN IF value.nan THEN 0
            ELSE IF point.uom = "ETH" THEN convertEthToUsdc(value.tenths, price)
            ELSE IF point.uom = "USDC" THEN value.tenths
            ELSE 0

RECURSIVE SumPoints(_, _)
SumPoints(points, price) ==
    IF points = <<>> THEN 0
    ELSE PointUsdValue(Head(points), price) + SumPoints(Tail(points), price)

\* lines 103-156, one credential group applied to the Map
AddGroup(totals, group, price) ==
    LET hasEarningsCredentials ==
            \E i \in 1 .. Len(group.points) : isEarningsCredential(group.points[i].slug)
        issuerTotal == SumPoints(group.points, price)
    IN IF ~hasEarningsCredentials THEN totals
       ELSE IF issuerTotal > 0
       THEN [k \in DOMAIN totals \cup {group.issuer} |->
                IF k = group.issuer THEN issuerTotal ELSE totals[k]]
       ELSE totals

RECURSIVE ForEachGroup(_, _, _)
ForEachGroup(totals, groups, price) ==
    IF groups = <<>> THEN totals
    ELSE ForEachGroup(AddGroup(totals, Head(groups), price), Tail(groups), price)

EmptyMap == [k \in {} |-> 0]

ComputeIssuerTotals(groups, price) == ForEachGroup(EmptyMap, groups, price)

\* Array.from(issuerTotals.values()).reduce((sum, value) => sum + value, 0)
RECURSIVE SumValues(_, _)
SumValues(totals, keys) ==
    IF keys = {} THEN 0
    ELSE LET k == CHOOSE x \in keys : TRUE
         IN totals[k] + SumValues(totals, keys \ {k})

\* ------------------------------------------------------------------------
\* Share image route: GET (route.tsx lines 23-394)
\* ------------------------------------------------------------------------
MaxGroups == 3

Chars(a, b, c, d) == SelectSeq(<<a, b, c, d>>, LAMBDA x : x # "")

Point(slug, value, uom) == [slug |-> slug, readable_value |-> value, uom |-> uom]

\* points lists of the credential groups the model draws from
PointLists ==
    { <<Point("earnings_slug", Chars("1", "", "", ""), "USDC")>>,
      <<Point("earnings_slug", Chars("1", ".", "5", "K"), "USDC"),
        Point("earnings_slug", Chars("2", "", "", ""), "ETH")>>,
      <<Point("other_slug", Chars("5", "", "", ""), "USDC")>>,
      <<Point("", Chars("5", "", "", ""), "USDC"),
        Point("earnings_slug", Chars("$", "3", "", ""), "USDC")>>,
      <<Point("earnings_slug", Chars("a", "b", "c", ""), "USDC"),
        Point("earnings_slug", Chars("4", "", "", ""), ""),
        Point("earnings_slug", <<>>, "ETH"),
        Point("earnings_slug", Chars("2", "M", "", ""), "POINTS")>>,
      <<Point("earnings_slug", Chars("-", "1", "", ""), "USDC")>>,
      <<Point("earnings_slug", Chars("2", "M", "", ""), "USDC")>>,
      <<>> }

Issuers == {"Mirror", "Zora"}

CredentialGroups == { [issuer |-> i, points |-> pl] : i \in Issuers, pl \in PointLists }

\* ETH price in USD
RateValues == {3000}

\* what getSocialAccountsForTalentId resolves with
SocialResults == { <<>>, <<[source |-> "farcaster", followerCount |-> 2],
                          [source |-> "github", followerCount |-> 3]>> }

\* what getCredentialsForTalentId resolves with inside a whole GET
CredentialResults ==
    { <<>>,
      <<[issuer |-> "Mirror",
         points |-> <<Point("earnings_slug", Chars("1", ".", "5", "K"), "USDC")>>]>> }

\* what the talent-score fetch inside getCreatorScoreForTalentId produces inside a whole GET
ShareScoreOutcomes ==
    { o \in FetchOutcomes :
        \/ o.threw /\ o.err.isError
        \/ ~o.threw /\ o.data.hasPoints /\ o.data.points \in {0, 3} }

\* calculateTotalFollowers of @/lib/utils: the follower counts added up
RECURSIVE calculateTotalFollowers(_)
calculateTotalFollowers(accounts) ==
    IF accounts = <<>> THEN 0
    ELSE Head(accounts).followerCount + calculateTotalFollowers(Tail(accounts))

FetchNames == {"social", "credentials", "score"}
FontWeights == 1 .. 4

NotFound == [status |-> 404, kind |-> "json", error |-> "Profile not found"]
Failed == [status |-> 500, kind |-> "json", error |-> "Failed to generate image"]
ImageOk == [status |-> 200, kind |-> "image", error |-> ""]

ShareIdle ==
    /\ getPc = "idle"
    /\ profile = "pending"
    /\ fetches = [f \in FetchNames |-> "pending"]
    /\ socialAccounts = <<>>
    /\ credentials = <<>>
    /\ creatorScoreData = ErrorScore("")
    /\ totalFollowers = 0
    /\ creatorScore = 0
    /\ rate = "pending"
    /\ ethPrice = 0
    /\ issuerTotals = EmptyMap
    /\ totalEarnings = 0
    /\ fonts = [w \in FontWeights |-> "pending"]
    /\ image = "none"
    /\ responses = <<>>

\* a request has arrived and GET awaits the cached profile fetch (line 29)
ShareInit ==
    /\ getPc = "profile"
    /\ profile = "pending"
    /\ fetches = [f \in FetchNames |-> "pending"]
    /\ socialAccounts = <<>>
    /\ credentials = <<>>
    /\ creatorScoreData = ErrorScore("")
    /\ totalFollowers = 0
    /\ creatorScore = 0
    /\ rate = "pending"
    /\ ethPrice = 0
    /\ issuerTotals = EmptyMap
    /\ totalEarnings = 0
    /\ fonts = [w \in FontWeights |-> "pending"]
    /\ image = "none"
    /\ responses = <<>>

\* the unstable_cache callback (lines 30-42): throws unless response.ok
cachedProfile(outcome) ==
    IF outcome = "ok" THEN [threw |-> FALSE, ok |-> TRUE]
    ELSE [threw |-> TRUE, ok |-> FALSE]

\* lines 27-59 and the catch: the profile fetch settles
profileSettles(outcome) ==
    /\ getPc = "profile"
    /\ profile' = outcome
    /\ LET profileResponse == cachedProfile(outcome)
       IN IF profileResponse.threw
          THEN /\ responses' = Append(responses, Failed)
               /\ getPc' = "done"
          ELSE IF ~profileResponse.ok
          THEN /\ responses' = Append(responses, NotFound)
               /\ getPc' = "done"
          ELSE /\ responses' = responses
               /\ getPc' = "fanout"
    /\ op' = Op("profileSettles", outcome)
    /\ UNCHANGED <<fetches, socialAccounts, credentials, creatorScoreData, totalFollowers,
                   creatorScore, rate, ethPrice, issuerTotals, totalEarnings, fonts, image>>
    /\ UNCHANGED notShare

\* lines 94-99, run by whichever of the three fetches settles last
\* (creatorScoreData.score || 0 is the score itself: it is always a number here)
AfterFanOut(fetchesNow, accounts, scoreData) ==
    IF \A f \in FetchNames : fetchesNow[f] # "pending"
    THEN /\ totalFollowers' = calculateTotalFollowers(accounts)
         /\ creatorScore' = scoreData.score
         /\ getPc' = "rate"
    ELSE UNCHANGED <<totalFollowers, creatorScore, getPc>>

\* lines 60-70: getSocialAccountsForTalentId settles; .catch(() => [])
socialSettles(ok, value) ==
    /\ getPc = "fanout"
    /\ fetches["social"] = "pending"
    /\ fetches' = [fetches EXCEPT !["social"] = IF ok THEN "ok" ELSE "failed"]
    /\ socialAccounts' = IF ok THEN value ELSE <<>>
    /\ AfterFanOut(fetches', socialAccounts', creatorScoreData)
    /\ op' = Op("socialSettles", ok)
    /\ UNCHANGED <<profile, credentials, creatorScoreData, rate, ethPrice, issuerTotals,
                   totalEarnings, fonts, image, responses>>
    /\ UNCHANGED notShare

\* lines 71-78: getCredentialsForTalentId settles; .catch(() => [])
credentialsSettle(ok, value) ==
    /\ getPc = "fanout"
    /\ fetches["credentials"] = "pending"
    /\ fetches' = [fetches EXCEPT !["credentials"] = IF ok THEN "ok" ELSE "failed"]
    /\ credentials' = IF ok THEN value ELSE <<>>
    /\ AfterFanOut(fetches', socialAccounts, creatorScoreData)
    /\ op' = Op("credentialsSettle", ok)
    /\ UNCHANGED <<profile, socialAccounts, creatorScoreData, rate, ethPrice, issuerTotals,
                   totalEarnings, fonts, image, responses>>
    /\ UNCHANGED notShare

\* mutant: the score fetch has no .catch, its rejection reaches the catch of GET
scoreSettles_NoCatch(ok, outcome) ==
    /\ getPc = "fanout"
    /\ fetches["score"] = "pending"
    /\ fetches' = [fetches EXCEPT !["score"] = IF ok THEN "ok" ELSE "failed"]
    /\ IF ok
       THEN /\ creatorScoreData' = getCreatorScoreForTalentId(outcome)
            /\ AfterFanOut(fetches', socialAccounts, creatorScoreData')
            /\ responses' = responses
       ELSE /\ responses' = Append(responses, Failed)
            /\ getPc' = "done"
            /\ UNCHANGED <<creatorScoreData, totalFollowers, creatorScore>>
    /\ op' = Op("scoreSettles", ok)
    /\ UNCHANGED <<profile, socialAccounts, credentials, rate, ethPrice, issuerTotals,
                   totalEarnings, fonts, image>>
    /\ UNCHANGED notShare

\* lines 79-91: getCreatorScoreForTalentId settles; .catch(() => ({score: 0}))
scoreSettles(ok, outcome) ==
    /\ getPc = "fanout"
    /\ fetches["score"] = "pending"
    /\ fetches' = [fetches EXCEPT !["score"] = IF ok THEN "ok" ELSE "failed"]
    /\ creatorScoreData' = IF ok THEN getCreatorScoreForTalentId(outcome)
                           ELSE [ErrorScore("") EXCEPT !.error = Undefined]
    /\ AfterFanOut(fetches', socialAccounts, creatorScoreData')
    /\ op' = Op("scoreSettles", ok)
    /\ UNCHANGED <<profile, socialAccounts, credentials, rate, ethPrice, issuerTotals,
                   totalEarnings, fonts, image, responses>>
    /\ UNCHANGED notShare

\* lines 99-196 and the catch: getEthUsdcPrice settles, the earnings are added up and
\* the four font fetches start
rateSettles(ok, price) ==
    /\ getPc = "rate"
    /\ IF ok
       THEN /\ rate' = "ok"
            /\ ethPrice' = price
            /\ issuerTotals' = ComputeIssuerTotals(credentials, price)
            /\ totalEarnings' = SumValues(issuerTotals', DOMAIN issuerTotals')
            /\ getPc' = "fonts"
            /\ responses' = responses
       ELSE /\ rate' = "failed"
            /\ responses' = Append(responses, Failed)
            /\ getPc' = "done"
            /\ UNCHANGED <<ethPrice, issuerTotals, totalEarnings>>
    /\ op' = Op("rateSettles", ok)
    /\ UNCHANGED <<profile, fetches, socialAccounts, credentials, creatorScoreData,
                   totalFollowers, creatorScore, fonts, image>>
    /\ UNCHANGED notShare

\* mutant: a font fetch that fails is replaced by empty font data
fontSettles_IgnoresFailure(w, ok, constructorThrows) ==
    /\ getPc \in {"fonts", "done"}
    /\ rate = "ok"
    /\ fonts[w] = "pending"
    /\ fonts' = [fonts EXCEPT ![w] = IF ok THEN "ok" ELSE "failed"]
    /\ IF getPc = "done"
       THEN UNCHANGED <<image, responses, getPc>>
       ELSE IF \A v \in FontWeights : fonts'[v] # "pending"
       THEN /\ image' = IF constructorThrows THEN "threw" ELSE "built"
            /\ responses' = Append(responses, IF constructorThrows THEN Failed ELSE ImageOk)
            /\ getPc' = "done"
       ELSE UNCHANGED <<image, responses, getPc>>
    /\ op' = Op("fontSettles", w)
    /\ UNCHANGED <<profile, fetches, socialAccounts, credentials, creatorScoreData,
                   totalFollowers, creatorScore, rate, ethPrice, issuerTotals, totalEarnings>>
    /\ UNCHANGED notShare

\* lines 187-394: one font fetch settles. Promise.all rejects with the first rejection
\* (the catch answers) and resolves with the last fulfilment (the ImageResponse is
\* built and returned, or its constructor throws into the catch). A font that settles
\* after GET has returned changes nothing but its own promise.
fontSettles(w, ok, constructorThrows) ==
    /\ getPc \in {"fonts", "done"}
    /\ rate = "ok"
    /\ fonts[w] = "pending"
    /\ fonts' = [fonts EXCEPT ![w] = IF ok THEN "ok" ELSE "failed"]
    /\ IF getPc = "done"
       THEN UNCHANGED <<image, responses, getPc>>
       ELSE IF ~ok
       THEN /\ responses' = Append(responses, Failed)
            /\ getPc' = "done"
            /\ image' = image
       ELSE IF \A v \in FontWeights : fonts'[v] = "ok"
       THEN /\ image' = IF constructorThrows THEN "threw" ELSE "built"
            /\ responses' = Append(responses, IF constructorThrows THEN Failed ELSE ImageOk)
            /\ getPc' = "done"
       ELSE UNCHANGED <<image, responses, getPc>>
    /\ op' = Op("fontSettles", w)
    /\ UNCHANGED <<profile, fetches, socialAccounts, credentials, creatorScoreData,
                   totalFollowers, creatorScore, rate, ethPrice, issuerTotals, totalEarnings>>
    /\ UNCHANGED notShare

ShareNext ==
    \/ \E outcome \in {"ok", "notOk", "threw"} : profileSettles(outcome)
    \/ \E ok \in BOOLEAN, value \in SocialResults : socialSettles(ok, value)
    \/ \E ok \in BOOLEAN, value \in CredentialResults : credentialsSettle(ok, value)
    \/ \E ok \in BOOLEAN, outcome \in ShareScoreOutcomes : scoreSettles(ok, outcome)
    \/ \E ok \in BOOLEAN, price \in RateValues : rateSettles(ok, price)
    \/ \E w \in FontWeights, ok \in BOOLEAN, t \in BOOLEAN : fontSettles(w, ok, t)

\* the aggregation on its own: GET awaiting getEthUsdcPrice, with any credential groups
AggInit ==
    /\ getPc = "rate"
    /\ profile = "ok"
    /\ fetches = [f \in FetchNames |-> "ok"]
    /\ socialAccounts = <<>>
    /\ credentials \in SeqsUpTo(CredentialGroups, MaxGroups)
    /\ creatorScoreData = [ErrorScore("") EXCEPT !.error = Undefined]
    /\ totalFollowers = 0
    /\ creatorScore = 0
    /\ rate = "pending"
    /\ ethPrice = 0
    /\ issuerTotals = EmptyMap
    /\ totalEarnings = 0
    /\ fonts = [w \in FontWeights |-> "pending"]
    /\ image = "none"
    /\ responses = <<>>

AggNext == \E ok \in BOOLEAN, price \in RateValues : rateSettles(ok, price)

\* ------------------------------------------------------------------------
\* Specifications
\* ------------------------------------------------------------------------
Init == RefreshInit /\ ScoreIdle /\ ShareIdle /\ op = Op("init", Null)
Next == RefreshNext
Spec == Init /\ [][Next]_vars

InitScore == RefreshIdle /\ ScoreInit /\ ShareIdle /\ op = Op("init", Null)
SpecScore == InitScore /\ [][ScoreNext]_vars

InitShare == RefreshIdle /\ ScoreIdle /\ ShareInit /\ op = Op("init", Null)
SpecShare == InitShare /\ [][ShareNext]_vars

InitAgg == RefreshIdle /\ ScoreIdle /\ AggInit /\ op = Op("init", Null)
SpecAgg == InitAgg /\ [][AggNext]_vars

\* ------------------------------------------------------------------------
\* Claims
\* ------------------------------------------------------------------------

\* C1: a refreshScore invocation made while a request is outstanding changes none of
\* isRefreshing, successMessage, error and issues no request (so at most one request
\* is ever outstanding).
C1_InFlightInvocationIsNoOp ==
    [][(invocations' = invocations + 1 /\ inFlight > 0)
         => UNCHANGED <<isRefreshing, successMessage, error, inFlight>>]_vars

\* C2: when the profile lookup answers not-ok, the response of GET is the 404 JSON
\* response, neither the 500 response nor an image.
C2_UnknownSubjectIs404 ==
    (profile = "notOk" /\ responses # <<>>) => responses = <<NotFound>>

\* C3: once a request has resolved with success and nothing is pending any more (no
\* request outstanding, no callback scheduled), the controller is idle again:
\* isRefreshing is false.
C3_SuccessReturnsToIdle ==
    (successMessage = EnqueuedMessage /\ inFlight = 0 /\ timers = 0) => ~isRefreshing

\* C4 as stated: error goes from set to null only in a clearError step.
C4_OnlyClearErrorRemoves ==
    [][(error # Null /\ error' = Null) => op'.name = "clearError"]_vars

\* C4 as amended: error goes from set to null only in a clearError step or in a
\* refreshScore invocation that is accepted and starts a new request; no request
\* settlement, timer callback or re-render removes it.
C4_ClearedOnlyByClearErrorOrNewRefresh ==
    [][(error # Null /\ error' = Null)
         => \/ op'.name = "clearError"
            \/ op'.name = "refreshScore" /\ op'.arg = "started" /\ inFlight' = inFlight + 1]_vars

\* C4 witness: an error message outlives the end of its cycle and a re-render
C4_ErrorPersists ==
    error # Null /\ op.name = "render" /\ inFlight = 0 /\ timers = 0 /\ ~isRefreshing

\* C5: when getHighestScore returns, its result is the record of the lowest index
\* among the records without error that carry the maximum score; with no address or
\* only error records the result is an error record with score 0.
C5_BestOfN ==
    (scorePc = "done" /\ highest # <<>>) =>
        LET best == highest[1]
            valid == { i \in DOMAIN scores : scores[i].error = Undefined }
        IN IF valid = {}
           THEN best.error \notin {Undefined, Null, ""} /\ best.score = 0
           ELSE \E j \in valid :
                    /\ best = scores[j]
                    /\ \A k \in valid : scores[k].score <= scores[j].score
                    /\ \A k \in valid : k < j => scores[k].score < scores[j].score

\* C5 witness: two addresses tie on the maximum, the later one settled first, a third
\* address failed, and the fan-out has returned
C5_TieSettledOutOfOrder ==
    /\ scorePc = "done"
    /\ highest # <<>>
    /\ Len(addresses) = 3
    /\ \E i, j, k \in DOMAIN scores :
          /\ i < j
          /\ scores[i].error = Undefined /\ scores[j].error = Undefined
          /\ scores[k].error # Undefined
          /\ scores[i].score = scores[j].score
          /\ scores[i].score > 0
          /\ scores[i].walletAddress # scores[j].walletAddress
          /\ highest[1].walletAddress = scores[i].walletAddress
          /\ \E a, b \in 1 .. Len(completionOrder) :
                a < b /\ completionOrder[a] = j /\ completionOrder[b] = i

\* the USD values of all earnings points of one issuer, over every group naming it
RECURSIVE IssuerSum(_, _, _)
IssuerSum(groups, issuer, price) ==
    IF groups = <<>> THEN 0
    ELSE (IF Head(groups).issuer = issuer THEN SumPoints(Head(groups).points, price) ELSE 0)
         + IssuerSum(Tail(groups), issuer, price)

\* C6: after the aggregation, every issuer's entry is the sum of the USD values of all
\* its earnings points over all groups naming it, an issuer has an entry exactly when
\* that sum is positive, and totalEarnings is the sum of the entries.
C6_IssuerTotalsArePerIssuerSums ==
    rate = "ok" =>
        /\ \A issuer \in Issuers :
              LET sum == IssuerSum(credentials, issuer, ethPrice)
              IN /\ (issuer \in DOMAIN issuerTotals) <=> (sum > 0)
                 /\ issuer \in DOMAIN issuerTotals => issuerTotals[issuer] = sum
        /\ DOMAIN issuerTotals \subseteq Issuers
        /\ totalEarnings = SumValues(issuerTotals, DOMAIN issuerTotals)

\* the hard steps of GET: the profile fetch, the rate fetch, a font fetch, the ImageResponse
HardFailure ==
    \/ profile \in {"notOk", "threw"}
    \/ rate = "failed"
    \/ \E w \in FontWeights : fonts[w] = "failed"
    \/ image = "threw"

\* C7: a 404 or 500 response is never caused by the social, credential or score fetch
\* failing: it implies a hard failure; a failed fetch leaves its default (no accounts,
\* no groups, score 0) in the data; and when every hard step succeeded the response
\* is the image.
C7_SoftFailuresStillRender ==
    /\ (responses # <<>> /\ responses[1].status \in {404, 500}) => HardFailure
    /\ profile = "ok" =>
          /\ fetches["social"] = "failed" => socialAccounts = <<>> /\ totalFollowers = 0
          /\ fetches["credentials"] = "failed" => credentials = <<>> /\ totalEarnings = 0
          /\ fetches["score"] = "failed" => creatorScoreData.score = 0 /\ creatorScore = 0
    /\ (getPc = "done" /\ ~HardFailure) => responses = <<ImageOk>>

\* C7 witness: all three secondary fetches failed and the image was returned
C7_AllSoftFailedImage ==
    /\ responses = <<ImageOk>>
    /\ \A f \in FetchNames : fetches[f] = "failed"
    /\ totalFollowers = 0 /\ creatorScore = 0 /\ totalEarnings = 0

LevelMatches(outcome, record) ==
    (~outcome.threw /\ outcome.data.error \in {Undefined, ""} /\ outcome.data.hasPoints) =>
        LET p == outcome.data.points
            containing == { i \in 1 .. Len(LEVEL_RANGES) :
                              LEVEL_RANGES[i].min <= p /\ p <= LEVEL_RANGES[i].max }
        IN /\ Cardinality(containing) <= 1
           /\ record.score = p
           /\ \A i \in containing :
                 record.level = i /\ record.levelName = LEVEL_RANGES[i].name
           /\ containing = {} =>
                 record.level = 1 /\ record.levelName = LEVEL_RANGES[1].name

\* C9: every record getScoreForAddress or getCreatorScoreForTalentId returned for a
\* non-error body with points p has the 1-based index and the name of the one range
\* containing p, and level 1 when no range contains p.
C9_LevelDerivation ==
    /\ \A i \in DOMAIN scores : LevelMatches(inputs[i], scores[i])
    /\ talentScore # <<>> => LevelMatches(talentInput[1], talentScore[1])

\* C9 witness: getCreatorScoreForTalentId returned the top level for points on the
\* upper end of the last range
C9_TopLevelReached ==
    /\ talentScore # <<>>
    /\ ~talentInput[1].threw
    /\ talentInput[1].data.hasPoints
    /\ talentInput[1].data.points = LEVEL_RANGES[Len(LEVEL_RANGES)].max
    /\ talentScore[1].level = Len(LEVEL_RANGES)

\* the message C10 expects after a failed request
ExpectedError(settled) ==
    IF settled.name = "failed"
    THEN (IF settled.arg \in {Undefined, ""} THEN FallbackError ELSE settled.arg)
    ELSE (IF settled.arg.isError THEN settled.arg.message ELSE FallbackError)

\* C10: a request that rejects or resolves with success=false ends its cycle with error
\* set to the expected message, successMessage null and isRefreshing false, issues no
\* further request and schedules no onSuccess callback.
C10_FailureEndsCycle ==
    [][op'.name \in {"failed", "rejected"} =>
          /\ error' = ExpectedError(op')
          /\ successMessage' = Null
          /\ isRefreshing' = FALSE
          /\ inFlight' = inFlight - 1
          /\ timers' = timers
          /\ callbackRuns' = callbackRuns]_vars

\* C11: a callback is scheduled only by a step in which a request resolves with success,
\* one per such step and with the success message set by that same step; onSuccess runs
\* only by consuming one scheduled callback, so it never runs more often than requests
\* succeeded; and a run of the callback, failing or not, leaves isRefreshing,
\* successMessage and error as they were.
C11_CallbackOncePerSuccess ==
    [][/\ timers' > timers =>
             /\ op'.name = "resolved"
             /\ timers' = timers + 1
             /\ inFlight' = inFlight - 1
             /\ successMessage' = EnqueuedMessage
             /\ hasOnSuccess
       /\ callbackRuns' # callbackRuns =>
             /\ callbackRuns' = callbackRuns + 1
             /\ timers' = timers - 1
             /\ UNCHANGED <<isRefreshing, successMessage, error>>
       /\ op'.name \in {"failed", "rejected", "refreshScore", "clearError", "render"} =>
             timers' = timers /\ callbackRuns' = callbackRuns
       /\ timers' + callbackRuns' <= invocations']_vars

\* C11 witness: the callback ran once after a success, threw, and the success message
\* is still shown with no error
C11_CallbackThrewStateIntact ==
    /\ op.name = "onSuccess" /\ op.arg = "threw"
    /\ callbackRuns = 1 /\ timers = 0
    /\ successMessage = EnqueuedMessage /\ error = Null /\ isRefreshing

\* C12: successMessage and error are never both set.
C12_MessagesExclusive ==
    ~(successMessage # Null /\ error # Null)

====
